---- MODULE Spec2Model ----
(***************************************************************************)
(* State-machine model of fastapi_app/main.py: the chat handler           *)
(* (POST /api/chat), the session handler (POST /api/session), the         *)
(* diagnostic handler (GET /api/test-log), the in-memory conversation     *)
(* store and the spreadsheet logger with its local-file fallback.         *)
(*                                                                         *)
(* Text is a sequence of one-character strings; the long literals of the  *)
(* program ("NO_PID", "LongBot", the fallback reply, ...) are kept as one *)
(* element each.  A JSON value is a record [t, s, n]: its type tag, its   *)
(* text when it is a string, its number when it is a number.              *)
(***************************************************************************)
EXTENDS Integers, Sequences, FiniteSets, TLC

VARIABLES
    sheet,          \* module global `sheet`: "none" or "ws" (a worksheet)
    client,         \* module global `client`: "none" or "openai"
    conversations,  \* module global `conversations`: conv_key -> list of turns
    sheetRows,      \* rows the remote worksheet has received
    backupFile,     \* writes made to sheet_log_backup.txt
    logCalls,       \* history: the calls of log_to_sheets, in order
    appends,        \* history: conv_key -> every turn appended, in order
    req,            \* chat requests: position in the handler, locals, response
    running,        \* the chat request the event loop is executing, 0 if none
    sessions        \* responses the session and test-log handlers returned

vars == <<sheet, client, conversations, sheetRows, backupFile, logCalls,
          appends, req, running, sessions>>

(***************************************************************************)
(* Bounds of the model.                                                    *)
(***************************************************************************)
MaxOps == 2          \* requests of Spec, SpecShapes, SpecIdentity, SpecKeys
MaxInFlight == 2     \* chat requests in flight at the same time
SeqChats == 11       \* chat requests of SpecSeq, one after the other
RaceChats == 6       \* chat requests of SpecRace

(***************************************************************************)
(* Program constants.                                                      *)
(***************************************************************************)
MAX_HISTORY == 10

NO_PID == <<"NO_PID">>
UnknownBot == <<"UnknownBot">>
FALLBACK_REPLY == <<"Sorry, I couldn't generate a response right now.">>
ARM == <<"crt-intuitive">>
BACKUP_SEP == <<",", " ">>
NOW_ISO == <<"%Y-%m-%dT%H:%M:%S">>
UNIX_TIME == <<"int(time.time())">>
ERR_JSON == <<"Invalid JSON body">>
ERR_MESSAGE == <<"Missing required field 'message'">>
ERR_BOT == <<"Missing required field 'bot'">>
ERR_SERVER == <<"Internal Server Error">>

Whitespace == {" ", "\n", "\t"}
DigitChars == <<"0", "1", "2", "3", "4", "5", "6", "7", "8", "9">>

(***************************************************************************)
(* JSON / Python values.                                                   *)
(***************************************************************************)
JAbsent == [t |-> "absent", s |-> <<>>, n |-> 0]
JNull == [t |-> "null", s |-> <<>>, n |-> 0]
JStr(s) == [t |-> "str", s |-> s, n |-> 0]
JNum(n) == [t |-> "num", s |-> <<>>, n |-> n]

\* Python truthiness: None, "" and 0 are false.
Truthy(v) ==
    CASE v.t = "str" -> v.s # <<>>
      [] v.t = "num" -> v.n # 0
      [] OTHER -> FALSE

\* str(v) as the f-strings and str() calls compute it.
PyStr(v) ==
    CASE v.t = "str" -> v.s
      [] v.t = "num" -> <<DigitChars[v.n + 1]>>
      [] OTHER -> <<"None">>

\* dict.get(key): None when the key is absent.
Get(payload, field) ==
    IF payload[field].t = "absent" THEN JNull ELSE payload[field]

\* dict.get(key, default).
GetDefault(payload, field, default) ==
    IF payload[field].t = "absent" THEN default ELSE payload[field]

\* a or b: the first operand when it is truthy, else the second.
PyOr(a, b) == IF Truthy(a) THEN a ELSE b

RECURSIVE LStrip(_)
LStrip(s) ==
    IF s # <<>> /\ Head(s) \in Whitespace THEN LStrip(Tail(s)) ELSE s

RECURSIVE RStrip(_)
RStrip(s) ==
    IF s # <<>> /\ s[Len(s)] \in Whitespace
    THEN RStrip(SubSeq(s, 1, Len(s) - 1))
    ELSE s

\* str.strip()
Strip(s) == RStrip(LStrip(s))

(***************************************************************************)
(* Identity resolution.                                                    *)
(***************************************************************************)
\* BOT_ID_MAP.get(token, token)
BotIdMapGet(token) ==
    IF Len(token) = 1 /\ token[1] \in {"1", "2", "3", "4", "5", "6", "7", "8"}
    THEN <<"LongBot", token[1]>>
    ELSE token

\* chat: payload.get("prolific_pid") or payload.get("test_pid") or
\*       payload.get("pid") or "NO_PID"
ChatPid(payload) ==
    PyOr(Get(payload, "prolific_pid"),
         PyOr(Get(payload, "test_pid"),
              PyOr(Get(payload, "pid"), JStr(NO_PID))))

\* chat: BOT_ID_MAP.get(str(bot_param), str(bot_param))
ChatBotId(bot_param) == BotIdMapGet(PyStr(bot_param))

\* chat: f"{prolific_pid}:{bot_id}"
ConvKey(prolific_pid, bot_id) == PyStr(prolific_pid) \o <<":">> \o bot_id

\* session: request.query_params.get("pid", "NO_PID")
SessionPid(pidParam) == IF pidParam.t = "absent" THEN NO_PID ELSE pidParam.s

\* session: BOT_ID_MAP.get(bot_param, bot_param) if bot_param else "UnknownBot"
SessionBotId(botParam) ==
    LET bot_param == IF botParam.t = "absent" THEN <<>> ELSE botParam.s
    IN IF bot_param # <<>> THEN BotIdMapGet(bot_param) ELSE UnknownBot

(***************************************************************************)
(* Activity logger: log_to_sheets.                                         *)
(***************************************************************************)
ROLE_USER == <<"user">>
ROLE_ASSISTANT == <<"assistant">>
ROLE_SESSION == <<"session">>
ROLE_SYSTEM == <<"system">>

\* str(x) if x else ""  (x a Python value)
StrOrEmpty(v) == IF Truthy(v) THEN PyStr(v) ELSE <<>>

\* row = [timestamp, pid_str, bot_str, arm_str, role_str, content_str]
LogRow(prolific_pid, bot_id, role, content) ==
    <<NOW_ISO, StrOrEmpty(prolific_pid), bot_id, ARM, role, content>>

\* f"{timestamp}, {pid_str}, {bot_str}, {arm_str}, {role_str}, {content_str}\n"
BackupLine(row) ==
    row[1] \o BACKUP_SEP \o row[2] \o BACKUP_SEP \o row[3] \o BACKUP_SEP
        \o row[4] \o BACKUP_SEP \o row[5] \o BACKUP_SEP \o row[6] \o <<"\n">>

\* What the two outbound calls of one log_to_sheets call can do: append_row
\* returns or raises, and the write to the backup file returns or raises.
LogEnvs ==
    IF sheet = "none"
    THEN {[append |-> "unconfigured", write |-> "unused"]}
    ELSE {[append |-> "ok", write |-> "unused"],
          [append |-> "fail", write |-> "ok"],
          [append |-> "fail", write |-> "fail"]}

\* The sinks as one value, so that a handler can log more than once.
Sinks == [rows |-> sheetRows, file |-> backupFile, calls |-> logCalls,
          raised |-> FALSE]

\* log_to_sheets without the inner try/except around the backup write.
LogToSheetsUnguarded(k, r, prolific_pid, bot_id, role, content, env) ==
    LET row == LogRow(prolific_pid, bot_id, role, content)
        call == [req |-> r, pid |-> prolific_pid, bot |-> bot_id,
                 role |-> role, content |-> content,
                 append |-> env.append, write |-> env.write]
        called == [k EXCEPT !.calls = Append(@, call)]
    IN  IF sheet = "none" THEN called
        ELSE IF env.append = "ok"
             THEN [called EXCEPT !.rows = Append(@, row)]
        ELSE IF env.write = "ok"
             THEN [called EXCEPT !.file = Append(@, BackupLine(row))]
        ELSE [called EXCEPT !.raised = TRUE]

\* log_to_sheets(prolific_pid, bot_id, role, content), called by chat
\* request r (0: another handler), on sinks k, with the outbound calls
\* behaving as env says.  `calls` records the call itself.
LogToSheets(k, r, prolific_pid, bot_id, role, content, env) ==
    LET row == LogRow(prolific_pid, bot_id, role, content)
        call == [req |-> r, pid |-> prolific_pid, bot |-> bot_id,
                 role |-> role, content |-> content,
                 append |-> env.append, write |-> env.write]
        called == [k EXCEPT !.calls = Append(@, call)]
    IN  IF sheet = "none"                 \* "Skipping Google Sheets log"
        THEN called
        ELSE IF env.append = "ok"         \* sheet.append_row(row) returned
             THEN [called EXCEPT !.rows = Append(@, row)]
        ELSE IF env.write = "ok"          \* except: backup write returned
             THEN [called EXCEPT !.file = Append(@, BackupLine(row))]
        ELSE called                       \* except: "Backup logging also failed"

(***************************************************************************)
(* Conversation store.                                                     *)
(***************************************************************************)
Turn(role, content, r) == [role |-> role, content |-> content, req |-> r]

\* if conv_key not in conversations: conversations[conv_key] = []
EnsureKey(convs, key) ==
    IF key \in DOMAIN convs THEN convs
    ELSE [x \in DOMAIN convs \cup {key} |->
             IF x = key THEN <<>> ELSE convs[x]]

\* lst[-n:]
LastN(lst, n) ==
    IF Len(lst) > n THEN SubSeq(lst, Len(lst) - n + 1, Len(lst)) ELSE lst

\* conversations[conv_key].append(turn)
AppendTurn(convs, key, turn) == [convs EXCEPT ![key] = Append(@, turn)]

\* if len(conversations[conv_key]) > 10:
\*     conversations[conv_key] = conversations[conv_key][-10:]
TrimHistory(convs, key) ==
    IF Len(convs[key]) > MAX_HISTORY
    THEN [convs EXCEPT ![key] = LastN(@, MAX_HISTORY)]
    ELSE convs

\* Lines 317-326 of chat: create the key, append the user turn, trim.
StoreUserTurn(convs, key, turn) ==
    TrimHistory(AppendTurn(EnsureKey(convs, key), key, turn), key)

\* Lines 348-349 of chat: append the assistant turn.
StoreAssistantTurn(convs, key, turn) == AppendTurn(convs, key, turn)

(***************************************************************************)
(* Chat requests.  A request body is what the client sent: whether it     *)
(* parses as JSON, the shape of the JSON value and, for an object, its    *)
(* fields.                                                                 *)
(***************************************************************************)
Body(valid, shape, prolific_pid, test_pid, pid, bot, message) ==
    [valid |-> valid, shape |-> shape, prolific_pid |-> prolific_pid,
     test_pid |-> test_pid, pid |-> pid, bot |-> bot, message |-> message]

NoBody == Body(FALSE, "none", JAbsent, JAbsent, JAbsent, JAbsent, JAbsent)

Response(error, reply, session_id) ==
    [error |-> error, reply |-> reply, session_id |-> session_id]

NoResponse == Response(<<>>, <<>>, <<>>)

FreshRequest ==
    [pc |-> "idle", body |-> NoBody, prolific_pid |-> JNull, bot_id |-> <<>>,
     user_msg |-> <<>>, conv_key |-> <<>>, reply |-> <<>>,
     provider |-> "none", calls |-> 0, sent |-> <<>>,
     status |-> 0, resp |-> NoResponse, overlap |-> FALSE]

InFlight == {r \in DOMAIN req : req[r].pc \notin {"idle", "done"}}

Arrived == {r \in DOMAIN req : req[r].pc # "idle"}

\* The model takes as many requests, of all kinds, as `req` has places.
Budget == Cardinality(Arrived) + Len(sessions) < Cardinality(DOMAIN req)

\* The event loop runs no chat handler.
LoopFree == running = 0

\* Handlers whose steps the loop runs whenever they are ready.
Preempted(r) == TRUE

\* The handler is a coroutine whose only suspension point is
\* `await request.json()` (line 296): it resumes there when the loop is
\* free, and from there to its return no other handler runs.
Scheduled(r) ==
    IF req[r].pc = "await_json" THEN LoopFree ELSE running = r

\* A request reaches the server and its handler suspends at line 296.
Arrive(r, bodies, cap) ==
    /\ req[r].pc = "idle"
    /\ \A q \in DOMAIN req : q < r => req[q].pc # "idle"
    /\ Budget
    /\ Cardinality(InFlight) < cap
    /\ \E b \in bodies :
          req' = [req EXCEPT ![r].pc = "await_json", ![r].body = b,
                             ![r].overlap = (InFlight # {})]
    /\ UNCHANGED <<sheet, client, conversations, sheetRows, backupFile,
                   logCalls, appends, running, sessions>>

\* The request's handler returns (or an exception leaves it).
Finished(r, status, resp) ==
    [req EXCEPT ![r].pc = "done", ![r].status = status, ![r].resp = resp]

\* payload.get("message", "").strip() raises AttributeError unless the
\* payload is a dict and the value a str.
MessageRaises(b) ==
    \/ b.shape # "object"
    \/ GetDefault(b, "message", JStr(<<>>)).t # "str"

\* Lines 295-326: parse, resolve, validate, store the user turn.
Resume(r) ==
    /\ req[r].pc = "await_json"
    /\ Scheduled(r)
    /\ LET b == req[r].body
           prolific_pid == ChatPid(b)
           bot_param == GetDefault(b, "bot", JStr(<<>>))
           user_msg == Strip(GetDefault(b, "message", JStr(<<>>)).s)
           bot_id == ChatBotId(bot_param)
           conv_key == ConvKey(prolific_pid, bot_id)
       IN  IF ~b.valid
           THEN /\ req' = Finished(r, 400, Response(ERR_JSON, <<>>, <<>>))
                /\ UNCHANGED <<conversations, appends, running>>
           ELSE IF MessageRaises(b)
           THEN /\ req' = Finished(r, 500, Response(ERR_SERVER, <<>>, <<>>))
                /\ UNCHANGED <<conversations, appends, running>>
           ELSE IF user_msg = <<>>
           THEN /\ req' = Finished(r, 400, Response(ERR_MESSAGE, <<>>, <<>>))
                /\ UNCHANGED <<conversations, appends, running>>
           ELSE IF ~Truthy(bot_param)
           THEN /\ req' = Finished(r, 400, Response(ERR_BOT, <<>>, <<>>))
                /\ UNCHANGED <<conversations, appends, running>>
           ELSE /\ conversations' =
                      StoreUserTurn(conversations, conv_key,
                                    Turn(ROLE_USER, user_msg, r))
                /\ appends' =
                      AppendTurn(EnsureKey(appends, conv_key), conv_key,
                                 Turn(ROLE_USER, user_msg, r))
                /\ req' = [req EXCEPT ![r].pc = "log_user",
                                      ![r].prolific_pid = prolific_pid,
                                      ![r].bot_id = bot_id,
                                      ![r].user_msg = user_msg,
                                      ![r].conv_key = conv_key]
                /\ running' = r
    /\ UNCHANGED <<sheet, client, sheetRows, backupFile, logCalls, sessions>>

\* The message as received, before .strip().
UserLogContentRaw(r) == req[r].body.message.s

\* What the user-turn log call is given (line 329).
UserLogContent(r) == req[r].user_msg

\* One log_to_sheets call of request r, then on to `next`.
LogStep(r, role, content, next) ==
    \E env \in LogEnvs :
       LET k == LogToSheets(Sinks, r, req[r].prolific_pid, req[r].bot_id,
                            role, content, env)
       IN  /\ sheetRows' = k.rows
           /\ backupFile' = k.file
           /\ logCalls' = k.calls
           /\ IF k.raised
              THEN /\ req' = Finished(r, 500, Response(ERR_SERVER, <<>>, <<>>))
                   /\ running' = 0
              ELSE /\ req' = [req EXCEPT ![r].pc = next]
                   /\ UNCHANGED running

\* Line 329: log_to_sheets(prolific_pid, bot_id, "user", user_msg)
LogUser(r) ==
    /\ req[r].pc = "log_user"
    /\ Scheduled(r)
    /\ LogStep(r, ROLE_USER, UserLogContent(r), "call_provider")
    /\ UNCHANGED <<sheet, client, conversations, appends, sessions>>

\* How one call of client.chat.completions.create can end: it raises, it
\* returns a response without usable content, or it returns text.
ProviderRaise == [kind |-> "raise", text |-> <<>>]
ProviderMalformed == [kind |-> "malformed", text |-> <<>>]
ProviderText(t) == [kind |-> "text", text |-> t]
ProviderUnconfigured == [kind |-> "unconfigured", text |-> <<>>]

ProviderOutcomes(outs) ==
    IF client = "none" THEN {ProviderUnconfigured} ELSE outs

\* As ProviderReply, with a missing content read as "".
ProviderReplyLenient(out) ==
    CASE out.kind = "text" -> Strip(out.text)
      [] out.kind = "malformed" -> <<>>
      [] OTHER -> FALLBACK_REPLY

\* Lines 332-353: the reply the try/except leaves in `reply`.
ProviderReply(out) ==
    IF out.kind = "text" THEN Strip(out.text) ELSE FALLBACK_REPLY

\* messages = [system prompt] + conversations[conv_key]
BuildMessages(history) == <<Turn(ROLE_SYSTEM, <<"SYSTEM_PROMPT">>, 0)>> \o history

\* Lines 331-353: call the provider, store the assistant turn on success.
CallProvider(r, outs) ==
    /\ req[r].pc = "call_provider"
    /\ Scheduled(r)
    /\ \E out \in ProviderOutcomes(outs) :
          LET reply == ProviderReply(out)
              called == out.kind # "unconfigured"
          IN  /\ req' = [req EXCEPT
                    ![r].pc = "log_assistant",
                    ![r].provider = out.kind,
                    ![r].calls = IF called THEN @ + 1 ELSE @,
                    ![r].sent = IF called
                                THEN BuildMessages(conversations[req[r].conv_key])
                                ELSE @,
                    ![r].reply = reply]
              /\ conversations' =
                    IF out.kind = "text"
                    THEN StoreAssistantTurn(conversations, req[r].conv_key,
                                            Turn(ROLE_ASSISTANT, reply, r))
                    ELSE conversations
              /\ appends' =
                    IF out.kind = "text"
                    THEN AppendTurn(appends, req[r].conv_key,
                                    Turn(ROLE_ASSISTANT, reply, r))
                    ELSE appends
    /\ UNCHANGED <<sheet, client, sheetRows, backupFile, logCalls, running,
                   sessions>>

\* Line 356: log_to_sheets(prolific_pid, bot_id, "assistant", reply)
LogAssistant(r) ==
    /\ req[r].pc = "log_assistant"
    /\ Scheduled(r)
    /\ LogStep(r, ROLE_ASSISTANT, req[r].reply, "respond")
    /\ UNCHANGED <<sheet, client, conversations, appends, sessions>>

\* f"{prolific_pid}:{bot_id}:{int(time.time())}"
SessionLike(prolific_pid, bot_id) ==
    PyStr(prolific_pid) \o <<":">> \o bot_id \o <<":">> \o UNIX_TIME

\* Lines 358-360: return {reply, session_id}.
Respond(r) ==
    /\ req[r].pc = "respond"
    /\ Scheduled(r)
    /\ req' = Finished(r, 200,
                 Response(<<>>, req[r].reply,
                          SessionLike(req[r].prolific_pid, req[r].bot_id)))
    /\ running' = 0
    /\ UNCHANGED <<sheet, client, conversations, sheetRows, backupFile,
                   logCalls, appends, sessions>>

(***************************************************************************)
(* The session and test-log handlers: no suspension point at all.         *)
(***************************************************************************)
\* str(uuid.uuid4().int)[:16]: two of the values it can take.
SESSION_IDS == {<<"1234567890123456">>, <<"6543210987654321">>}

\* POST /api/session?pid=..&bot=..
NewSession(pidParam, botParam) ==
    /\ LoopFree
    /\ Budget
    /\ \E session_id \in SESSION_IDS, env \in LogEnvs :
          LET prolific_pid == SessionPid(pidParam)
              bot_id == SessionBotId(botParam)
              k == LogToSheets(Sinks, 0, JStr(prolific_pid), bot_id,
                               ROLE_SESSION,
                               <<"session_created:">> \o session_id, env)
          IN  /\ sheetRows' = k.rows
              /\ backupFile' = k.file
              /\ logCalls' = k.calls
              /\ sessions' = Append(sessions,
                    [handler |-> "session",
                     status |-> IF k.raised THEN 500 ELSE 200,
                     pidParam |-> pidParam, botParam |-> botParam,
                     session_id |-> session_id,
                     prolific_pid |-> prolific_pid, bot_id |-> bot_id])
    /\ UNCHANGED <<sheet, client, conversations, appends, req, running>>

\* GET /api/test-log
TestLog ==
    /\ LoopFree
    /\ Budget
    /\ \E env1 \in LogEnvs, env2 \in LogEnvs :
          LET pid == JStr(<<"DEBUG_PID">>)
              bot == <<"LongBot", "1">>
              k1 == LogToSheets(Sinks, 0, pid, bot, ROLE_USER,
                                <<"Test user message">>, env1)
              k2 == IF k1.raised THEN k1
                    ELSE LogToSheets(k1, 0, pid, bot, ROLE_ASSISTANT,
                                     <<"Test assistant reply">>, env2)
          IN  /\ sheetRows' = k2.rows
              /\ backupFile' = k2.file
              /\ logCalls' = k2.calls
              /\ sessions' = Append(sessions,
                    [handler |-> IF k2.raised THEN "test-log-error"
                                 ELSE "test-log-success",
                     status |-> 200,
                     pidParam |-> JAbsent, botParam |-> JAbsent,
                     session_id |-> <<>>,
                     prolific_pid |-> pid.s, bot_id |-> bot])
    /\ UNCHANGED <<sheet, client, conversations, appends, req, running>>

(***************************************************************************)
(* Inputs.                                                                 *)
(***************************************************************************)
Obj(prolific_pid, test_pid, pid, bot, message) ==
    Body(TRUE, "object", prolific_pid, test_pid, pid, bot, message)

MSG_HI == <<" ", "h", "i", "\n">>
REPLY_OK == <<" ", "o", "k", " ">>
REPLY_BLANK == <<" ">>

\* An accepted request: the participant comes from test_pid, the bot is the
\* number 3, the message has surrounding whitespace.
AcceptedBodies ==
    {Obj(JAbsent, JStr(<<"t">>), JStr(<<"g">>), JNum(3), JStr(MSG_HI))}

\* Bodies of every shape and field type.
ShapeBodies ==
    {Body(FALSE, "none", JAbsent, JAbsent, JAbsent, JAbsent, JAbsent)}
    \cup {Body(TRUE, shape, JAbsent, JAbsent, JAbsent, JAbsent, JAbsent) :
             shape \in {"list", "num", "str", "null"}}
    \cup {Obj(JAbsent, JAbsent, JStr(<<"P", "1">>), bot, message) :
             bot \in {JAbsent, JNull, JStr(<<>>), JNum(0), JNum(3),
                      JStr(<<"1">>), JStr(<<"x">>)},
             message \in {JAbsent, JNull, JNum(5), JStr(<<>>),
                          JStr(<<" ", "\t">>), JStr(MSG_HI)}}

\* Every combination of the three participant fields.
IdentityBodies ==
    {Obj(pp, tp, gp, JStr(<<"1">>), JStr(MSG_HI)) :
        pp \in {JAbsent, JNull, JStr(<<>>), JStr(<<"p">>)},
        tp \in {JAbsent, JStr(<<>>), JStr(<<"t">>)},
        gp \in {JAbsent, JStr(<<>>), JStr(<<"g">>)}}

SessionPidParams == {JAbsent, JStr(<<>>), JStr(<<"P", "1">>)}
SessionBotParams == {JAbsent, JStr(<<>>), JStr(<<"3">>), JStr(<<"x">>)}

\* Participant and bot ids with and without the ':' that joins them.
KeyBodies ==
    {Obj(JAbsent, JAbsent, JStr(pid), JStr(bot), JStr(MSG_HI)) :
        pid \in {<<"a">>, <<"a", ":", "b">>},
        bot \in {<<"c">>, <<"b", ":", "c">>}}

\* One conversation key, one message.
HistoryBodies ==
    {Obj(JStr(<<"P", "1">>), JAbsent, JAbsent, JStr(<<"1">>), JStr(MSG_HI))}

AllOutcomes ==
    {ProviderRaise, ProviderMalformed, ProviderText(REPLY_OK),
     ProviderText(REPLY_BLANK)}
ThreeOutcomes == {ProviderRaise, ProviderMalformed, ProviderText(REPLY_OK)}
TwoOutcomes == {ProviderRaise, ProviderText(REPLY_OK)}
OneOutcome == {ProviderText(REPLY_OK)}

(***************************************************************************)
(* Specifications.                                                         *)
(***************************************************************************)
InitWith(n) ==
    /\ sheet \in {"none", "ws"}
    /\ client \in {"none", "openai"}
    /\ conversations = [k \in {} |-> <<>>]
    /\ sheetRows = <<>>
    /\ backupFile = <<>>
    /\ logCalls = <<>>
    /\ appends = [k \in {} |-> <<>>]
    /\ req = [r \in 1..n |-> FreshRequest]
    /\ running = 0
    /\ sessions = <<>>

\* Spec: accepted chat requests, up to MaxInFlight in flight at the same
\* time, with every way the provider call can end and every outcome of
\* the sinks.
Init == InitWith(MaxOps)

Next ==
    \/ \E r \in DOMAIN req : Arrive(r, AcceptedBodies, MaxInFlight)
    \/ \E r \in DOMAIN req : Resume(r)
    \/ \E r \in DOMAIN req : LogUser(r)
    \/ \E r \in DOMAIN req : CallProvider(r, ThreeOutcomes)
    \/ \E r \in DOMAIN req : LogAssistant(r)
    \/ \E r \in DOMAIN req : Respond(r)

Spec == Init /\ [][Next]_vars

\* SpecLog: the three handlers that log (chat, session, test-log), with
\* every outcome of the sinks.
InitLog == InitWith(MaxOps)

NextLog ==
    \/ \E r \in DOMAIN req : Arrive(r, AcceptedBodies, MaxInFlight)
    \/ \E r \in DOMAIN req : Resume(r)
    \/ \E r \in DOMAIN req : LogUser(r)
    \/ \E r \in DOMAIN req : CallProvider(r, OneOutcome)
    \/ \E r \in DOMAIN req : LogAssistant(r)
    \/ \E r \in DOMAIN req : Respond(r)
    \/ \E pidParam \in {JAbsent, JStr(<<"P", "1">>)} :
          NewSession(pidParam, JStr(<<"3">>))
    \/ TestLog

SpecLog == InitLog /\ [][NextLog]_vars

\* SpecShapes: chat requests with bodies of every shape, one at a time.
NextShapes ==
    \/ \E r \in DOMAIN req : Arrive(r, ShapeBodies, 1)
    \/ \E r \in DOMAIN req : Resume(r)
    \/ \E r \in DOMAIN req : LogUser(r)
    \/ \E r \in DOMAIN req : CallProvider(r, AllOutcomes)
    \/ \E r \in DOMAIN req : LogAssistant(r)
    \/ \E r \in DOMAIN req : Respond(r)

InitShapes == InitWith(MaxOps)

SpecShapes == InitShapes /\ [][NextShapes]_vars

\* SpecIdentity: chat and session requests over the participant fields.
NextIdentity ==
    \/ \E r \in DOMAIN req : Arrive(r, IdentityBodies, 1)
    \/ \E r \in DOMAIN req : Resume(r)
    \/ \E r \in DOMAIN req : LogUser(r)
    \/ \E r \in DOMAIN req : CallProvider(r, TwoOutcomes)
    \/ \E r \in DOMAIN req : LogAssistant(r)
    \/ \E r \in DOMAIN req : Respond(r)
    \/ \E pidParam \in SessionPidParams, botParam \in SessionBotParams :
          NewSession(pidParam, botParam)

InitIdentity == InitWith(MaxOps) /\ sheet = "none"

SpecIdentity == InitIdentity /\ [][NextIdentity]_vars

\* SpecKeys: chat requests whose ids may contain ':'.
NextKeys ==
    \/ \E r \in DOMAIN req : Arrive(r, KeyBodies, MaxInFlight)
    \/ \E r \in DOMAIN req : Resume(r)
    \/ \E r \in DOMAIN req : LogUser(r)
    \/ \E r \in DOMAIN req : CallProvider(r, TwoOutcomes)
    \/ \E r \in DOMAIN req : LogAssistant(r)
    \/ \E r \in DOMAIN req : Respond(r)

InitKeys == InitWith(MaxOps) /\ sheet = "none"

SpecKeys == InitKeys /\ [][NextKeys]_vars

\* SpecSeq: SeqChats chat requests for one key, each sent after the
\* response to the one before.
InitSeq == InitWith(SeqChats) /\ sheet = "none"

NextSeq ==
    \/ \E r \in DOMAIN req : Arrive(r, HistoryBodies, 1)
    \/ \E r \in DOMAIN req : Resume(r)
    \/ \E r \in DOMAIN req : LogUser(r)
    \/ \E r \in DOMAIN req : CallProvider(r, TwoOutcomes)
    \/ \E r \in DOMAIN req : LogAssistant(r)
    \/ \E r \in DOMAIN req : Respond(r)

SpecSeq == InitSeq /\ [][NextSeq]_vars

\* SpecRace: RaceChats chat requests for one key, up to MaxInFlight of
\* them in flight at the same time; the provider answers every call when
\* it is configured, and none when it is not.
InitRace == InitWith(RaceChats) /\ sheet = "none"

NextRace ==
    \/ \E r \in DOMAIN req : Arrive(r, HistoryBodies, MaxInFlight)
    \/ \E r \in DOMAIN req : Resume(r)
    \/ \E r \in DOMAIN req : LogUser(r)
    \/ \E r \in DOMAIN req : CallProvider(r, OneOutcome)
    \/ \E r \in DOMAIN req : LogAssistant(r)
    \/ \E r \in DOMAIN req : Respond(r)

SpecRace == InitRace /\ [][NextRace]_vars

(***************************************************************************)
(* Properties.                                                             *)
(***************************************************************************)
Done(r) == req[r].pc = "done"
Accepted(r) == req[r].pc \in {"log_user", "call_provider", "log_assistant",
                              "respond"} \/ (Done(r) /\ req[r].status = 200)
Last(lst) == lst[Len(lst)]
HistoryKey == <<"P", "1", ":", "LongBot", "1">>

\* C1: in every state in which no handler is in the middle of its run,
\* every stored conversation has at most MAX_HISTORY turns, also after the
\* assistant turn of a chat request has been appended.
C1_HistoryBounded ==
    running = 0 =>
        \A key \in DOMAIN conversations :
            Len(conversations[key]) <= MAX_HISTORY

\* C2: after 11 accepted chat requests for one key, sent one after the
\* other, the stored conversation holds exactly 10 turns, the turn
\* appended first is absent and the last entry is the turn appended last.
C2_ElevenRequests ==
    (Cardinality({r \in DOMAIN req : Done(r) /\ req[r].status = 200}) = 11
        /\ Cardinality(Arrived) = 11)
    => LET stored == conversations[HistoryKey]
           appended == appends[HistoryKey]
       IN  /\ Len(stored) = 10
           /\ \A i \in 1..Len(stored) : stored[i] # appended[1]
           /\ Last(stored) = Last(appended)

\* The 11 requests have been answered, the provider having failed on some
\* and answered on others.
C2_Reached ==
    /\ Cardinality({r \in DOMAIN req : Done(r) /\ req[r].status = 200}) = 11
    /\ \E r \in DOMAIN req : req[r].provider = "text"
    /\ \E r \in DOMAIN req : req[r].provider = "raise"

\* C3: a chat request (a JSON object) whose message is absent, empty or
\* all whitespace, or whose bot is absent or empty, is answered 400 with
\* an error message, and its handler changes neither the conversation
\* store nor the log, whatever its other fields contain.
C3_Rejectable(b) ==
    /\ b.valid
    /\ b.shape = "object"
    /\ \/ b.message.t = "absent"
       \/ b.message.t = "str" /\ \A i \in 1..Len(b.message.s) :
                                    b.message.s[i] \in Whitespace
       \/ b.bot.t = "absent"
       \/ b.bot.t = "str" /\ b.bot.s = <<>>

C3_RejectedCleanly ==
    [][\A r \in DOMAIN req :
          (req[r].pc = "await_json" /\ req'[r].pc # "await_json"
              /\ C3_Rejectable(req[r].body))
          => /\ req'[r].pc = "done"
             /\ req'[r].status = 400
             /\ req'[r].resp.error # <<>>
             /\ conversations' = conversations
             /\ logCalls' = logCalls
             /\ sheetRows' = sheetRows
             /\ backupFile' = backupFile]_vars

\* C6: every chat request whose body is valid JSON ends either in 200 with
\* {reply, session_id} or in 400 with {error}.
C6_OnlyTwoOutcomes ==
    \A r \in DOMAIN req :
        (Done(r) /\ req[r].body.valid)
        => \/ req[r].status = 200 /\ req[r].resp.session_id # <<>>
                                  /\ req[r].resp.error = <<>>
           \/ req[r].status = 400 /\ req[r].resp.error # <<>>

\* C8: the participant id a handler resolves is the first present
\* non-empty value among the fields it reads, in the order prolific_pid,
\* test_pid, pid, and "NO_PID" when there is none; it is never empty.
C8_NonEmpty(v) == v.t = "str" /\ v.s # <<>>

C8_FirstNonEmpty(values) ==
    LET present == SelectSeq(values, C8_NonEmpty)
    IN  IF present = <<>> THEN NO_PID ELSE Head(present).s

C8_ParticipantResolved ==
    /\ \A r \in DOMAIN req :
          Accepted(r)
          => /\ PyStr(req[r].prolific_pid) =
                   C8_FirstNonEmpty(<<req[r].body.prolific_pid,
                                      req[r].body.test_pid,
                                      req[r].body.pid>>)
             /\ PyStr(req[r].prolific_pid) # <<>>
    /\ \A i \in 1..Len(sessions) :
          sessions[i].handler = "session"
          => /\ sessions[i].prolific_pid =
                   C8_FirstNonEmpty(<<sessions[i].pidParam>>)
             /\ sessions[i].prolific_pid # <<>>

\* C10: a stored conversation holds the turns of one (participant id,
\* bot id) pair only, and a request sends the provider turns of its own
\* pair only, also when the ids contain ':'.
C10_PairOf(r) == <<req[r].prolific_pid, req[r].bot_id>>

C10_PartitionedByPair ==
    /\ \A key \in DOMAIN conversations :
          \A i, j \in 1..Len(conversations[key]) :
              C10_PairOf(conversations[key][i].req) =
                  C10_PairOf(conversations[key][j].req)
    /\ \A r \in DOMAIN req :
          \A i \in 2..Len(req[r].sent) :
              C10_PairOf(req[r].sent[i].req) = C10_PairOf(r)

\* C4: when the provider is not configured, its call raises or its
\* response has no usable content, the handler makes no second call, the
\* reply is the fallback literal and the request is answered 200 with it.
C4_FallbackOnProviderFailure ==
    \A r \in DOMAIN req :
        /\ req[r].calls <= 1
        /\ req[r].provider \in {"unconfigured", "raise", "malformed"}
           => /\ req[r].reply = FALLBACK_REPLY
              /\ req[r].calls = IF req[r].provider = "unconfigured"
                                THEN 0 ELSE 1
              /\ req[r].pc \in {"log_assistant", "respond", "done"}
              /\ Done(r) => /\ req[r].status = 200
                            /\ req[r].resp.reply = FALLBACK_REPLY
                            /\ req[r].resp.error = <<>>

\* Two requests have been answered, one after a provider exception and
\* one after a response without content.
C4_BothFailuresAnswered ==
    \E r, q \in DOMAIN req :
        /\ Done(r) /\ req[r].provider = "raise"
        /\ Done(q) /\ req[q].provider = "malformed"

\* C5 as written: every log call made while the sheet is not configured,
\* or whose append_row fails, leaves its line in the backup file.
C5_Events(outcomes) ==
    SelectSeq(logCalls, LAMBDA c : <<c.append, c.write>> \in outcomes)

C5_LineOf(c) == BackupLine(LogRow(c.pid, c.bot, c.role, c.content))

C5_BackupWheneverUnavailable ==
    LET lost == C5_Events({<<"unconfigured", "unused">>, <<"fail", "ok">>,
                           <<"fail", "fail">>})
    IN  backupFile = [i \in 1..Len(lost) |-> C5_LineOf(lost[i])]

\* C5 amended: the backup file holds, in order, one comma-joined line for
\* each log call whose append_row failed and whose file write succeeded
\* (and nothing for a call made without a sheet); the sheet holds the rows
\* whose append_row returned; and no handler fails because of a log call.
C5_BackupOnAppendFailure ==
    LET saved == C5_Events({<<"fail", "ok">>})
        sent == C5_Events({<<"ok", "unused">>})
    IN  /\ backupFile = [i \in 1..Len(saved) |-> C5_LineOf(saved[i])]
        /\ sheetRows = [i \in 1..Len(sent) |->
                           LogRow(sent[i].pid, sent[i].bot, sent[i].role,
                                  sent[i].content)]
        /\ \A r \in DOMAIN req : req[r].status # 500
        /\ \A i \in 1..Len(sessions) :
              /\ sessions[i].status = 200
              /\ sessions[i].handler # "test-log-error"

\* A log call fell back to the file, and another lost its event because
\* the file write failed too.
C5_FallbackTaken ==
    /\ C5_Events({<<"fail", "ok">>}) # <<>>
    /\ C5_Events({<<"fail", "fail">>}) # <<>>
    /\ backupFile # <<>>

\* C7: an accepted chat request makes exactly two log calls, with its
\* resolved participant and bot ids: the user event, with the trimmed
\* message, once the user turn is stored and before the provider is
\* called; then the assistant event, with the reply the caller receives.
C7_Event(c) == <<c.pid, c.bot, c.role, c.content>>

C7_EventsOf(r) ==
    LET mine == SelectSeq(logCalls, LAMBDA c : c.req = r)
    IN  [i \in 1..Len(mine) |-> C7_Event(mine[i])]

C7_UserEvent(r) ==
    <<req[r].prolific_pid, req[r].bot_id, ROLE_USER,
      Strip(req[r].body.message.s)>>

C7_AssistantEvent(r) ==
    <<req[r].prolific_pid, req[r].bot_id, ROLE_ASSISTANT, req[r].reply>>

C7_TwoLogEvents ==
    \A r \in DOMAIN req :
        /\ req[r].pc = "log_user"
           => /\ C7_EventsOf(r) = <<>>
              /\ req[r].calls = 0
              /\ Last(conversations[req[r].conv_key]) =
                    Turn(ROLE_USER, Strip(req[r].body.message.s), r)
        /\ req[r].pc = "call_provider"
           => /\ C7_EventsOf(r) = <<C7_UserEvent(r)>>
              /\ req[r].calls = 0
              /\ req[r].provider = "none"
        /\ req[r].pc = "log_assistant"
           => C7_EventsOf(r) = <<C7_UserEvent(r)>>
        /\ (req[r].pc = "respond" \/ (Done(r) /\ req[r].status = 200))
           => C7_EventsOf(r) = <<C7_UserEvent(r), C7_AssistantEvent(r)>>
        /\ (Done(r) /\ req[r].status = 200)
           => req[r].resp.reply = req[r].reply

\* Two accepted requests have been answered, one with the provider's text
\* and one with the fallback.
C7_BothAnswered ==
    \E r, q \in DOMAIN req :
        /\ Done(r) /\ req[r].status = 200 /\ req[r].provider = "text"
        /\ Done(q) /\ req[q].status = 200 /\ req[q].provider = "raise"
        /\ Len(logCalls) = 4

\* C9 as written, in the form a run can refute: chat requests for one key
\* that were in flight at the same time leave, once they are all answered,
\* a lost update (a turn missing that trimming did not drop as one of the
\* oldest) or stored turns in another order than they were appended.
C9_IsSuffix(stored, appended) ==
    /\ Len(stored) <= Len(appended)
    /\ stored = SubSeq(appended, Len(appended) - Len(stored) + 1,
                       Len(appended))

C9_Overlapped ==
    \E r \in DOMAIN req : Done(r) /\ req[r].status = 200 /\ req[r].overlap

C9_Intact(key) ==
    /\ C9_IsSuffix(conversations[key], appends[key])
    /\ Len(appends[key]) <= MAX_HISTORY => conversations[key] = appends[key]
    /\ Len(appends[key]) >= MAX_HISTORY => Len(conversations[key]) >= MAX_HISTORY

C9_InterleavingLosesTurns ==
    (C9_Overlapped /\ InFlight = {})
    => \E key \in DOMAIN conversations : ~C9_Intact(key)

\* C9 amended: chat handlers do not interleave.  At most one request is
\* between its resumption and its response; a request's assistant turn is
\* appended right after its own user turn; and every stored conversation
\* is the most recent part of what was appended to it, in the order of
\* the appends, with nothing but the oldest turns missing.
C9_Midway == {r \in DOMAIN req : req[r].pc \in {"log_user", "call_provider",
                                               "log_assistant", "respond"}}

C9_HandlersSerialized ==
    /\ C9_Midway = IF running = 0 THEN {} ELSE {running}
    /\ DOMAIN conversations = DOMAIN appends
    /\ \A key \in DOMAIN conversations :
          /\ C9_Intact(key)
          /\ \A i \in 1..Len(appends[key]) :
                appends[key][i].role = ROLE_ASSISTANT
                => /\ i > 1
                   /\ appends[key][i - 1].role = ROLE_USER
                   /\ appends[key][i - 1].req = appends[key][i].req

\* Requests that were in flight together have been answered, and the
\* conversation has been trimmed.
C9_OverlapAndTrim ==
    /\ C9_Overlapped
    /\ InFlight = {}
    /\ \E key \in DOMAIN conversations :
          Len(appends[key]) > Len(conversations[key])

====
